---- MODULE Spec2Model ----
(***************************************************************************)
(* dockerusr: run a docker command as the invoking host user.              *)
(*                                                                         *)
(* The model follows src/dockerusr.py.  Each invocation of the program is  *)
(* one process of the model running main(); the invocations share the      *)
(* host file system (the script file under /tmp).                          *)
(*                                                                         *)
(* A Python str is a sequence of atoms.  An atom is a fixed piece of text: *)
(* a word of a template, a separator, or one piece of input data.          *)
(* Concatenation is \o, so formatting a template is modelled by what it    *)
(* produces and two texts are equal iff their atom sequences are.          *)
(***************************************************************************)
EXTENDS Naturals, Sequences, FiniteSets

VARIABLES
    argv,             \* sys.argv of each invocation
    environ,          \* os.environ.get('DOCKERUSR_IMAGE') of each invocation
    os_user,          \* what os.getuid/getgid/pwd.getpwuid answer
    os_cwd,           \* what os.getcwd answers
    pc,               \* position of each invocation in main()
    arguments,        \* main: arguments
    user_info,        \* main: user_info
    script_contents,  \* main: script_contents
    script_name,      \* main: script_name
    full_script_path, \* main: full_script_path
    docker_cmd,       \* main: docker_cmd
    fs,               \* host file system: path -> file contents
    stdout,           \* lines printed by each invocation
    exit_code,        \* {} while running, {n} once the process has exited
    child_status,     \* {} or {n}: return value of subprocess.call
    script_seen,      \* what the container's interpreter found at the path
    write_outcome,    \* history: how write_to_file ended
    stages            \* history: the stages each invocation has performed

vars == <<argv, environ, os_user, os_cwd, pc, arguments, user_info,
          script_contents, script_name, full_script_path, docker_cmd,
          fs, stdout, exit_code, child_status, script_seen,
          write_outcome, stages>>

inputs == <<argv, environ, os_user, os_cwd>>

Procs == {"p1", "p2"}

----------------------------------------------------------------------------
(* Bounds of the model.                                                    *)

\* the docker child exits with a status in 0..MaxStatus
MaxStatus == 1

\* hex digits of the digest that stands for hashlib.md5().hexdigest()
DigestHexLen == 3

----------------------------------------------------------------------------
(* Text.                                                                   *)

SP == " "
NL == "\n"

\* Python's None; "{x}".format(x=None) renders it as the text None
None == <<"None">>

\* truthiness of an optional str: `not x` holds for None and for ""
MutFalsy(x) == x = None

Falsy(x) == x = None \/ x = <<>>

RECURSIVE Join(_, _)
\* sep.join(parts)
Join(sep, parts) ==
    IF parts = <<>> THEN <<>>
    ELSE IF Len(parts) = 1 THEN parts[1]
    ELSE parts[1] \o sep \o Join(sep, Tail(parts))

RECURSIVE Dec(_)
\* "{n}".format(n=<int>): the decimal digits of a non-negative integer
Dec(n) ==
    LET d == <<"0", "1", "2", "3", "4", "5", "6", "7", "8", "9">>
    IN  IF n < 10 THEN <<d[n + 1]>> ELSE Dec(n \div 10) \o <<d[(n % 10) + 1]>>

\* every atom a script can be made of, in a fixed order: its place is its code
Alphabet ==
    <<"#!/usr/bin/env bash", NL, SP, "groupadd", "useradd", "-g", "-u", "-m", "-d",
      "cd", "sudo", "HOME=", "    ", "/host_root", "/host_tmp", "/tmp",
      "0", "1", "2", "3", "4", "5", "6", "7", "8", "9",
      "a", "b", "c", "d", "e", "f", "_", "/home/", "/work", "/srv",
      "ls", "id", "-l", "rm", "None">>

Code(a) == CHOOSE i \in 1..Len(Alphabet) : Alphabet[i] = a

RECURSIVE Pow16(_)
Pow16(n) == IF n = 0 THEN 1 ELSE 16 * Pow16(n - 1)

Modulus == Pow16(DigestHexLen)

\* a * b modulo Modulus, computed in two parts so that no product leaves
\* the range of the integers
MulMod(a, b) == (((a * (b \div 256)) % Modulus) * 256 + a * (b % 256)) % Modulus

RECURSIVE Absorb(_, _, _)
\* absorbing atoms lo..hi of text t takes the digest state h to
\* (h * m + c) % Modulus; the result is <<m, c>>.  Each atom takes h to
\* h * 31 + Code(atom), left to right; the text is split in halves only to
\* keep the evaluation shallow.
Absorb(t, lo, hi) ==
    IF lo > hi THEN <<1, 0>>
    ELSE IF lo = hi THEN <<31, Code(t[lo])>>
    ELSE CHOOSE mc \in
             { <<MulMod(l[1], r[1]), (MulMod(l[2], r[1]) + r[2]) % Modulus>> :
                 l \in {Absorb(t, lo, (lo + hi) \div 2)},
                 r \in {Absorb(t, ((lo + hi) \div 2) + 1, hi)} } : TRUE

RECURSIVE Hex(_, _)
\* n as exactly k lower-case hex digits
Hex(n, k) ==
    LET d == <<"0", "1", "2", "3", "4", "5", "6", "7", "8", "9",
               "a", "b", "c", "d", "e", "f">>
    IN  IF k = 0 THEN <<>> ELSE Hex(n \div 16, k - 1) \o <<d[(n % 16) + 1]>>

\* md5_sum: a deterministic, fixed-width, lossy digest of the text.  MD5
\* itself is replaced by a DigestHexLen-digit polynomial digest whose state
\* starts at 7.
md5_sum(plain_text) ==
    CHOOSE digest \in
        { Hex((MulMod(7, mc[1]) + mc[2]) % Modulus, DigestHexLen) :
            mc \in {Absorb(plain_text, 1, Len(plain_text))} } : TRUE

----------------------------------------------------------------------------
(* UserInfo, ProgramArguments, PathInfo.                                   *)

UserInfo(user_name, user_id, group_id, home_dir) ==
    [user_name |-> user_name, user_id |-> user_id,
     group_id |-> group_id, home_dir |-> home_dir]

ProgramArguments(image, command, usehome, keep_container, keep_script, dry_run, container_name) ==
    [image |-> image, command |-> command, usehome |-> usehome,
     keep_container |-> keep_container, keep_script |-> keep_script,
     dry_run |-> dry_run, container_name |-> container_name]

PathInfo(cwd) ==
    [tmp |-> <<"/tmp">>, cwd |-> cwd,
     root_in_container |-> <<"/host_root">>,
     tmp_in_container |-> <<"/host_tmp">>]

\* a local of main() that has not been assigned yet
Unset == <<"unset">>

NoArguments == ProgramArguments(Unset, Unset, FALSE, FALSE, FALSE, FALSE, Unset)

NoUser == UserInfo(Unset, 0, 0, Unset)

----------------------------------------------------------------------------
(* ProgramArguments.parse.                                                 *)

Delimiter == <<"--">>

\* atoms that begin with '-': argparse takes a token that begins with one of
\* them for an option, never for the value of -i or -n
DashAtoms ==
    {"-i", "--image", "-u", "--usehome", "-k", "--keepcontainer",
     "-s", "--keepscript", "-d", "--dryrun", "-n", "--containername",
     "-x", "-l", "-m", "--"}

OptionLike(tok) == tok # <<>> /\ Head(tok) \in DashAtoms

\* '--' in argv
HasDelimiter(av) == \E i \in 1..Len(av) : av[i] = Delimiter

\* argv.index('--'): the first occurrence
delimiter_index(av) ==
    CHOOSE i \in 1..Len(av) :
        av[i] = Delimiter /\ \A j \in 1..(i - 1) : av[j] # Delimiter

\* the Namespace argparse starts from: the declared defaults
Defaults ==
    [ok |-> TRUE, image |-> None, usehome |-> FALSE, keepcontainer |-> FALSE,
     keepscript |-> FALSE, dryrun |-> FALSE, containername |-> None]

RECURSIVE parse_args(_, _, _)
\* parser.parse_args(program_args), from token i on, for the six declared
\* options, each given as its own token; ok = FALSE is argparse's error
\* (usage on stderr, exit 2)
parse_args(toks, i, ns) ==
    IF i > Len(toks) THEN ns
    ELSE IF toks[i] \in {<<"-i">>, <<"--image">>}
    THEN IF i < Len(toks) /\ ~OptionLike(toks[i + 1])
         THEN parse_args(toks, i + 2, [ns EXCEPT !.image = toks[i + 1]])
         ELSE [ns EXCEPT !.ok = FALSE]
    ELSE IF toks[i] \in {<<"-n">>, <<"--containername">>}
    THEN IF i < Len(toks) /\ ~OptionLike(toks[i + 1])
         THEN parse_args(toks, i + 2, [ns EXCEPT !.containername = toks[i + 1]])
         ELSE [ns EXCEPT !.ok = FALSE]
    ELSE IF toks[i] \in {<<"-u">>, <<"--usehome">>}
    THEN parse_args(toks, i + 1, [ns EXCEPT !.usehome = TRUE])
    ELSE IF toks[i] \in {<<"-k">>, <<"--keepcontainer">>}
    THEN parse_args(toks, i + 1, [ns EXCEPT !.keepcontainer = TRUE])
    ELSE IF toks[i] \in {<<"-s">>, <<"--keepscript">>}
    THEN parse_args(toks, i + 1, [ns EXCEPT !.keepscript = TRUE])
    ELSE IF toks[i] \in {<<"-d">>, <<"--dryrun">>}
    THEN parse_args(toks, i + 1, [ns EXCEPT !.dryrun = TRUE])
    ELSE [ns EXCEPT !.ok = FALSE]

\* exit(1) of the missing-delimiter branch
MutMissingDelimiterExit == 1 - 1

MissingDelimiterExit == 1

\* the outcome of ProgramArguments.parse(argv) with DOCKERUSR_IMAGE = env:
\* either the ProgramArguments (exit = {}) or the exit status and what was
\* printed before it
parse(av, env) ==
    IF ~HasDelimiter(av)
    THEN [exit |-> {MissingDelimiterExit}, args |-> NoArguments,
          out |-> << <<"need -- delimiter between options and command">>,
                     <<"usage: dockerusr <options> -- <command>">> >>]
    ELSE IF Len(av) < 3
    THEN [exit |-> {1}, args |-> NoArguments,
          out |-> << <<"need more arguments">>,
                     <<"usage: dockerusr <options as below> -- <command>">>,
                     <<"<help>">> >>]
    ELSE LET idx == delimiter_index(av)
             command == Join(<<SP>>, SubSeq(av, idx + 1, Len(av)))
             program_args == SubSeq(av, 2, idx - 1)
             ns == parse_args(program_args, 1, Defaults)
             image == IF Falsy(ns.image) THEN env ELSE ns.image
         IN  IF ~ns.ok
             THEN [exit |-> {2}, args |-> NoArguments, out |-> <<>>]
             ELSE IF Falsy(image)
             THEN [exit |-> {1}, args |-> NoArguments,
                   out |-> << <<"the -i/--image option was not set and no value for $DOCKERUSR_IMAGE">> >>]
             ELSE [exit |-> {},
                   args |-> ProgramArguments(image, command, ns.usehome,
                                ns.keepcontainer, ns.keepscript, ns.dryrun,
                                ns.containername),
                   out |-> <<>>]

----------------------------------------------------------------------------
(* BashSudoScriptRenderer, render_script_name, render_docker_run_command.  *)

MutHomeOpts(usr, args) ==
    IF args.usehome THEN <<"-m", SP, "-d", SP>> \o usr.home_dir ELSE <<>>

\* home_opts of render
HomeOpts(usr, args) ==
    IF ~args.usehome THEN <<"-m", SP, "-d", SP>> \o usr.home_dir ELSE <<>>

render(usr, args, path_info) ==
    <<"#!/usr/bin/env bash", NL>>
    \o <<"groupadd", SP, "-g", SP>> \o Dec(usr.group_id) \o <<SP>> \o usr.user_name \o <<NL>>
    \o <<"useradd", SP, "-u", SP>> \o Dec(usr.user_id) \o <<SP, "-g", SP>> \o Dec(usr.group_id)
       \o <<SP>> \o HomeOpts(usr, args) \o <<SP>> \o usr.user_name \o <<NL>>
    \o <<"cd", SP>> \o path_info.root_in_container \o path_info.cwd \o <<NL>>
    \o <<"sudo", SP, "-u", SP>> \o usr.user_name \o <<SP, "HOME=">> \o usr.home_dir
       \o <<SP>> \o args.command \o <<NL>>
    \o <<"    ">>

get_script_extension == <<"sh">>

get_interpreter == <<"/bin/bash">>

MutRenderScriptName(extension, username, script_content) ==
    <<"dockerusr_run_script_">> \o username \o <<".">> \o extension

render_script_name(extension, username, script_content) ==
    <<"dockerusr_run_script_">> \o username \o <<"_">> \o md5_sum(script_content)
    \o <<".">> \o extension

\* home_volume of render_docker_run_command
HomeVolume(usr, args) ==
    IF args.usehome
    THEN <<"-v", SP>> \o usr.home_dir \o <<":">> \o usr.home_dir
    ELSE <<>>

render_docker_run_command(interpreter, sn, args, usr, path_info) ==
    LET volumes ==
            <<"-v", SP>> \o path_info.tmp \o <<":">> \o path_info.tmp_in_container
            \o <<SP, "-v", SP>> \o path_info.cwd \o <<":">>
            \o path_info.root_in_container \o path_info.cwd
            \o <<SP>> \o HomeVolume(usr, args)
        rmcontainer == IF args.keep_container THEN <<>> ELSE <<"--rm">>
        container_name ==
            IF ~Falsy(args.container_name)
            THEN <<"--name", SP>> \o args.container_name
            ELSE <<>>
    IN  <<"docker", SP, "run", SP>> \o container_name \o <<SP>> \o rmcontainer
        \o <<SP>> \o volumes \o <<SP, "-ti", SP>> \o args.image \o <<SP>>
        \o interpreter \o <<SP>> \o path_info.tmp_in_container \o <<"/">> \o sn

----------------------------------------------------------------------------
(* The host file system: a set of files, at most one per path.             *)

File(path, contents) == [path |-> path, contents |-> contents]

Exists(path) == \E f \in fs : f.path = path

\* open(path, "w") and write(contents): the file is created or replaced
Written(path, contents) ==
    {f \in fs : f.path # path} \cup {File(path, contents)}

\* os.remove(path)
Removed(path) == {f \in fs : f.path # path}

----------------------------------------------------------------------------
(* main().  An uncaught exception ends the process in "aborted" with exit  *)
(* status 1; exit(n) ends it in "exit"; falling off the end of main ends   *)
(* it in "done" with exit status 0.                                        *)

Terminal == {"exit", "aborted", "done", "not_invoked"}

\* the process ends: exit status, and no further statement runs
Ends(p, how, status) ==
    /\ pc' = [pc EXCEPT ![p] = how]
    /\ exit_code' = [exit_code EXCEPT ![p] = {status}]

Goes(p, where) ==
    /\ pc' = [pc EXCEPT ![p] = where]
    /\ UNCHANGED exit_code

Stage(p, name) == stages' = [stages EXCEPT ![p] = Append(@, name)]

\* arguments = ProgramArguments.parse(sys.argv)
Parse(p) ==
    /\ pc[p] = "start"
    /\ \E r \in {parse(argv[p], environ[p])} :
           /\ stdout' = [stdout EXCEPT ![p] = @ \o r.out]
           /\ arguments' = [arguments EXCEPT ![p] = r.args]
           /\ IF r.exit = {}
              THEN Goes(p, "parsed")
              ELSE Ends(p, "exit", CHOOSE n \in r.exit : TRUE)
    /\ Stage(p, "Parse")
    /\ UNCHANGED <<inputs, write_outcome, user_info, script_contents, script_name,
                   full_script_path, docker_cmd, fs, child_status, script_seen>>

\* user_info = UserInfo.get_user_info(); pwd.getpwuid raises KeyError when
\* the uid has no entry in the user database
Resolve(p) ==
    /\ pc[p] = "parsed"
    /\ \E found \in BOOLEAN :
          IF found
          THEN /\ user_info' = [user_info EXCEPT ![p] = os_user[p]]
               /\ Goes(p, "resolved")
          ELSE /\ UNCHANGED user_info
               /\ Ends(p, "aborted", 1)
    /\ Stage(p, "Resolve")
    /\ UNCHANGED <<inputs, write_outcome, arguments, script_contents, script_name,
                   full_script_path, docker_cmd, fs, stdout, child_status,
                   script_seen>>

\* path_info = PathInfo(); script_contents = render(...); script_name = ...
Render(p) ==
    /\ pc[p] = "resolved"
    /\ \E contents \in {render(user_info[p], arguments[p], PathInfo(os_cwd[p]))} :
           /\ script_contents' = [script_contents EXCEPT ![p] = contents]
           /\ script_name' = [script_name EXCEPT ![p] =
                  render_script_name(get_script_extension,
                                     user_info[p].user_name, contents)]
    /\ Goes(p, "rendered")
    /\ Stage(p, "Render")
    /\ UNCHANGED <<inputs, write_outcome, arguments, user_info, full_script_path, docker_cmd,
                   fs, stdout, child_status, script_seen>>

MutAfterWrite(outcome) == "written"

\* where main continues after write_to_file: an OSError is not caught
AfterWrite(outcome) == IF outcome = "ok" THEN "written" ELSE "aborted"

\* full_script_path = ...; write_to_file(full_script_path, script_contents).
\* open() may fail (nothing is created) and write() may fail after open()
\* has created or truncated the file
Write(p) ==
    /\ pc[p] = "rendered"
    /\ \E path \in {PathInfo(os_cwd[p]).tmp \o <<"/">> \o script_name[p]} :
           /\ full_script_path' = [full_script_path EXCEPT ![p] = path]
           /\ \E outcome \in {"ok", "open_failed", "write_failed"} :
                 /\ write_outcome' = [write_outcome EXCEPT ![p] = outcome]
                 /\ fs' = IF outcome = "ok"
                          THEN Written(path, script_contents[p])
                          ELSE IF outcome = "write_failed"
                          THEN Written(path, <<>>)
                          ELSE fs
                 /\ IF AfterWrite(outcome) = "aborted"
                    THEN Ends(p, "aborted", 1)
                    ELSE Goes(p, AfterWrite(outcome))
    /\ Stage(p, "Write")
    /\ UNCHANGED <<inputs, arguments, user_info, script_contents, script_name,
                   docker_cmd, stdout, child_status, script_seen>>

\* docker_cmd = render_docker_run_command(...)
Build(p) ==
    /\ pc[p] = "written"
    /\ docker_cmd' = [docker_cmd EXCEPT ![p] =
           render_docker_run_command(get_interpreter, script_name[p],
               arguments[p], user_info[p], PathInfo(os_cwd[p]))]
    /\ Goes(p, "built")
    /\ Stage(p, "Build-Command")
    /\ UNCHANGED <<inputs, write_outcome, arguments, user_info, script_contents, script_name,
                   full_script_path, fs, stdout, child_status, script_seen>>

MutShouldExecute(args) == TRUE

\* if not arguments.dry_run
ShouldExecute(args) == ~args.dry_run

\* subprocess.call(docker_cmd, shell=True): the child is started
Execute(p) ==
    /\ pc[p] = "built"
    /\ ShouldExecute(arguments[p])
    /\ Goes(p, "running")
    /\ Stage(p, "Execute")
    /\ UNCHANGED <<inputs, write_outcome, arguments, user_info, script_contents, script_name,
                   full_script_path, docker_cmd, fs, stdout, child_status,
                   script_seen>>

\* subprocess.call returns: docker either failed before the container ran
\* (status # 0), or the container's interpreter opened the script through
\* the /tmp mount and found it (any status) or did not (status # 0).  The
\* returned status is not assigned to anything.
ChildExit(p) ==
    /\ pc[p] = "running"
    /\ \E started \in BOOLEAN, st \in 0..MaxStatus :
          LET seen == IF ~started THEN "not_started"
                      ELSE IF Exists(full_script_path[p]) THEN "found"
                      ELSE "missing"
          IN  /\ seen # "found" => st # 0
              /\ script_seen' = [script_seen EXCEPT ![p] = seen]
              /\ child_status' = [child_status EXCEPT ![p] = {st}]
    /\ Goes(p, "ran")
    /\ UNCHANGED <<inputs, write_outcome, arguments, user_info, script_contents, script_name,
                   full_script_path, docker_cmd, fs, stdout, stages>>

\* else: print(docker_cmd)
PrintCmd(p) ==
    /\ pc[p] = "built"
    /\ ~ShouldExecute(arguments[p])
    /\ stdout' = [stdout EXCEPT ![p] = Append(@, docker_cmd[p])]
    /\ Goes(p, "ran")
    /\ Stage(p, "Print")
    /\ UNCHANGED <<inputs, write_outcome, arguments, user_info, script_contents, script_name,
                   full_script_path, docker_cmd, fs, child_status, script_seen>>

MutShouldRemove(args) == ~args.keep_container

\* if not arguments.keep_script
ShouldRemove(args) == ~args.keep_script

MutAfterRemove(removed) == IF removed THEN "done" ELSE "ran"

\* where main continues after os.remove: FileNotFoundError is not caught
AfterRemove(removed) == IF removed THEN "done" ELSE "aborted"

\* os.remove(full_script_path)
Delete(p) ==
    /\ pc[p] = "ran"
    /\ ShouldRemove(arguments[p])
    /\ LET removed == Exists(full_script_path[p])
       IN  /\ fs' = Removed(full_script_path[p])
           /\ IF AfterRemove(removed) = "done" THEN Ends(p, "done", 0)
              ELSE IF AfterRemove(removed) = "aborted" THEN Ends(p, "aborted", 1)
              ELSE Goes(p, AfterRemove(removed))
    /\ Stage(p, "Delete")
    /\ UNCHANGED <<inputs, write_outcome, arguments, user_info, script_contents, script_name,
                   full_script_path, docker_cmd, stdout, child_status,
                   script_seen>>

\* else: print("keeping {s}")
Keep(p) ==
    /\ pc[p] = "ran"
    /\ ~ShouldRemove(arguments[p])
    /\ stdout' = [stdout EXCEPT ![p] =
           Append(@, <<"keeping", SP>> \o full_script_path[p])]
    /\ Ends(p, "done", 0)
    /\ Stage(p, "Keep")
    /\ UNCHANGED <<inputs, write_outcome, arguments, user_info, script_contents, script_name,
                   full_script_path, docker_cmd, fs, child_status, script_seen>>

Step(p) ==
    \/ Parse(p)
    \/ Resolve(p)
    \/ Render(p)
    \/ Write(p)
    \/ Build(p)
    \/ Execute(p)
    \/ ChildExit(p)
    \/ PrintCmd(p)
    \/ Delete(p)
    \/ Keep(p)

Next == \E p \in Procs : Step(p)

----------------------------------------------------------------------------
(* Inputs.                                                                 *)

Prog == <<"dockerusr">>

Img == <<"img">>

alice == UserInfo(<<"a">>, 1000, 1000, <<"/home/", "a">>)

bob == UserInfo(<<"b">>, 1001, 100, <<"/home/", "b">>)

\* a user whose name holds the separator of the script name and hex digits
carol == UserInfo(<<"a", "_", "b">>, 0, 0, <<"/srv">>)

\* argument vectors: without the delimiter, too short, with each flag,
\* with an empty and with a missing image, with an unknown flag
ArgvSet ==
    { <<Prog>>,
      <<Prog, <<"-i">>, Img, <<"ls">> >>,
      <<Prog, Delimiter>>,
      <<Prog, Delimiter, <<"ls">> >>,
      <<Prog, <<"-i">>, Img, Delimiter, <<"ls">> >>,
      <<Prog, <<"-i">>, <<>>, Delimiter, <<"ls">> >>,
      <<Prog, <<"--image">>, Img, <<"-d">>, Delimiter, <<"ls">> >>,
      <<Prog, <<"-i">>, Img, <<"-s">>, Delimiter, <<"ls">> >>,
      <<Prog, <<"-i">>, Img, <<"-u">>, Delimiter, <<"ls">>, <<"-l">> >>,
      <<Prog, <<"-d">>, <<"-s">>, Delimiter, <<"id">> >>,
      <<Prog, <<"-x">>, Delimiter, <<"ls">> >>,
      <<Prog, <<"-i">>, Delimiter, <<"ls">> >> }

\* the argument vectors of a second, concurrent invocation
RivalArgvSet ==
    { <<Prog, Delimiter, <<"ls">> >>,
      <<Prog, <<"-i">>, Img, <<"-s">>, Delimiter, <<"ls">> >>,
      <<Prog, <<"-i">>, Img, <<"-u">>, Delimiter, <<"ls">>, <<"-l">> >> }

Environs == {None, <<>>, <<"envimg">>}

Fresh(f) ==
    /\ pc = f
    /\ arguments = [p \in Procs |-> NoArguments]
    /\ user_info = [p \in Procs |-> NoUser]
    /\ script_contents = [p \in Procs |-> Unset]
    /\ script_name = [p \in Procs |-> Unset]
    /\ full_script_path = [p \in Procs |-> Unset]
    /\ docker_cmd = [p \in Procs |-> Unset]
    /\ fs = {}
    /\ stdout = [p \in Procs |-> <<>>]
    /\ exit_code = [p \in Procs |-> {}]
    /\ child_status = [p \in Procs |-> {}]
    /\ script_seen = [p \in Procs |-> "none"]
    /\ write_outcome = [p \in Procs |-> "none"]
    /\ stages = [p \in Procs |-> <<>>]

\* one invocation, or two concurrent ones on the same host
Init ==
    /\ \E a1 \in ArgvSet, e1 \in Environs, u1 \in {alice, bob} :
       \E second \in BOOLEAN, a2 \in RivalArgvSet, u2 \in {alice, bob} :
          /\ argv = [p \in Procs |-> IF p = "p1" THEN a1 ELSE a2]
          /\ environ = [p \in Procs |-> IF p = "p1" THEN e1 ELSE <<"envimg">>]
          /\ os_user = [p \in Procs |-> IF p = "p1" THEN u1 ELSE u2]
          /\ Fresh([p \in Procs |->
                       IF p = "p1" \/ second THEN "start" ELSE "not_invoked"])
          /\ ~second => (a2 = <<Prog, Delimiter, <<"ls">> >> /\ u2 = alice)
    /\ os_cwd = [p \in Procs |-> <<"/work">>]

Spec == Init /\ [][Next]_vars

\* the invocations of one user: only these can meet at a script path
InitSameUser == Init /\ \A p \in Procs : os_user[p] = alice

\* every invocation is a running OS process: it keeps taking its next step,
\* and the docker child it waits for terminates
FairSpec == InitSameUser /\ [][Next]_vars /\ \A p \in Procs : WF_vars(Step(p))

\* a token given or left out
Opt(tok) == {<<>>, <<tok>>}

\* well-formed argument vectors spanning every combination of the flags,
\* among them a command that itself holds a home-creation clause
RenderArgvSet ==
    { <<Prog>> \o u \o k \o s \o d \o n \o << <<"-i">>, Img, Delimiter >> \o c :
        u \in Opt(<<"-u">>), k \in Opt(<<"--keepcontainer">>),
        s \in Opt(<<"-s">>), d \in Opt(<<"--dryrun">>),
        n \in {<<>>, << <<"-n">>, <<"web">> >>},
        c \in { << <<"ls">> >>,
                << <<"useradd">>, <<"-m">>, <<"-d">>, <<"/home/", "a">>, <<"c">> >> } }

\* a single invocation over every UserInfo, ProgramArguments and working
\* directory of the rendering functions
InitRender ==
    /\ \E a1 \in RenderArgvSet, u1 \in {alice, bob, carol},
          c1 \in {<<"/work">>, <<"/home/", "a">>} :
          /\ argv = [p \in Procs |-> a1]
          /\ os_user = [p \in Procs |-> u1]
          /\ os_cwd = [p \in Procs |-> c1]
    /\ environ = [p \in Procs |-> None]
    /\ Fresh([p \in Procs |-> IF p = "p1" THEN "start" ELSE "not_invoked"])

SpecRender == InitRender /\ [][Next]_vars

----------------------------------------------------------------------------
(* What the properties read off a state, independently of the program's    *)
(* own parsing and rendering.                                              *)

Invoked(p) == pc[p] # "not_invoked"

Did(p, stage) == \E k \in 1..Len(stages[p]) : stages[p][k] = stage

Times(p, stage) == Cardinality({k \in 1..Len(stages[p]) : stages[p][k] = stage})

LastStage(p) == IF stages[p] = <<>> THEN "none" ELSE stages[p][Len(stages[p])]

\* the argument vector holds a "--" token
GivenDelimiter(p) == \E i \in 1..Len(argv[p]) : argv[p][i] = <<"--">>

\* the tokens in front of the first "--"
OptionTokens(p) ==
    LET at == {i \in 1..Len(argv[p]) : argv[p][i] = <<"--">>}
        first == CHOOSE i \in at : \A j \in at : i <= j
    IN  IF at = {} THEN <<>> ELSE SubSeq(argv[p], 2, first - 1)

\* one of the flag's spellings is among the option tokens
Given(p, short, long) ==
    \E i \in 1..Len(OptionTokens(p)) : OptionTokens(p)[i] \in {<<short>>, <<long>>}

\* the value that follows -i/--image, "" when there is none
GivenImage(p) ==
    LET o == OptionTokens(p)
        at == {i \in 1..(Len(o) - 1) : o[i] \in {<<"-i">>, <<"--image">>}}
    IN  IF at = {} THEN <<>> ELSE o[(CHOOSE i \in at : TRUE) + 1]

\* the value of DOCKERUSR_IMAGE, "" when it is not set
EnvImage(p) == IF environ[p] = <<"None">> THEN <<>> ELSE environ[p]

\* the options are the declared ones, each value option followed by a value
OptionsAccepted(p) ==
    LET o == OptionTokens(p)
        flags == {<<"-u">>, <<"--usehome">>, <<"-k">>, <<"--keepcontainer">>,
                  <<"-s">>, <<"--keepscript">>, <<"-d">>, <<"--dryrun">>}
        valued == {<<"-i">>, <<"--image">>, <<"-n">>, <<"--containername">>}
        isValue(i) == i > 1 /\ o[i - 1] \in valued
                      /\ (o[i] = <<>> \/ (o[i] \notin flags \cup valued /\ o[i] # <<"-x">>))
    IN  /\ GivenDelimiter(p)
        /\ Len(argv[p]) >= 3
        /\ \A i \in 1..Len(o) :
              \/ isValue(i)
              \/ o[i] \in flags
              \/ o[i] \in valued /\ i < Len(o) /\ isValue(i + 1)

\* a is a contiguous part of b
Infix(a, b) ==
    \E k \in 0..(Len(b) - Len(a)) : SubSeq(b, k + 1, k + Len(a)) = a

\* the line of a text that starts at atom i + 1
LineFrom(t, i) ==
    LET ends == {j \in (i + 1)..(Len(t) + 1) : j = Len(t) + 1 \/ t[j] = "\n"}
    IN  SubSeq(t, i + 1, (CHOOSE j \in ends : \A k \in ends : j <= k) - 1)

Blank(line) == \A k \in 1..Len(line) : line[k] \in {" ", "    "}

\* the last line of a text that is not blank
LastCommandLine(t) ==
    LET starts == {i \in 0..Len(t) : (i = 0 \/ t[i] = "\n") /\ ~Blank(LineFrom(t, i))}
    IN  LineFrom(t, CHOOSE i \in starts : \A j \in starts : j <= i)

\* the line of a script that starts with the word w
LineOf(t, w) ==
    LineFrom(t, CHOOSE i \in 0..(Len(t) - 1) : (i = 0 \/ t[i] = "\n") /\ t[i + 1] = w)

\* the lines an invocation printed that are a docker invocation
DockerLines(p) == {k \in 1..Len(stdout[p]) : stdout[p][k] # <<>> /\ stdout[p][k][1] = "docker"}

----------------------------------------------------------------------------
(* Properties.                                                             *)

\* C1: an invocation whose argument vector holds no "--" token ends in
\* exit() with a non-zero status, and on that run the OS identity lookup is
\* never made, no script file is written and no container is started.
C1_NoDelimiterExitsNonZero ==
    \A p \in Procs :
        (Invoked(p) /\ ~GivenDelimiter(p)) =>
            /\ pc[p] \in {"start", "exit"}
            /\ pc[p] = "exit" => (exit_code[p] # {} /\ 0 \notin exit_code[p])
            /\ pc[p] = "start" => exit_code[p] = {}
            /\ stages[p] \in {<<>>, <<"Parse">>}
            /\ user_info[p] = NoUser
            /\ write_outcome[p] = "none"
            /\ full_script_path[p] = <<"unset">>
            /\ child_status[p] = {} /\ script_seen[p] = "none"

C1_Witness ==
    \E p \in Procs :
        /\ ~GivenDelimiter(p) /\ Len(argv[p]) >= 3
        /\ pc[p] = "exit" /\ exit_code[p] = {1}
        /\ Len(stdout[p]) = 2

\* the image the claim names: the -i/--image value when non-empty,
\* otherwise the value of DOCKERUSR_IMAGE
ClaimedImage(p) == IF GivenImage(p) # <<>> THEN GivenImage(p) ELSE EnvImage(p)

\* C2: the image is the -i/--image value when supplied and non-empty,
\* otherwise DOCKERUSR_IMAGE; when both are absent or empty the run ends
\* with exit status 1 right after parsing, before anything is rendered,
\* written or run; a run that gets past parsing has a non-empty image.
C2_ImageResolvedOrFailFast ==
    \A p \in Procs :
        /\ arguments[p] # NoArguments =>
              /\ arguments[p].image # <<>> /\ arguments[p].image # <<"None">>
              /\ arguments[p].image = ClaimedImage(p)
        /\ (script_contents[p] # <<"unset">> \/ write_outcome[p] # "none"
            \/ docker_cmd[p] # <<"unset">> \/ Did(p, "Execute")) =>
              (arguments[p] # NoArguments /\ arguments[p].image # <<>>)
        /\ (Invoked(p) /\ pc[p] # "start" /\ OptionsAccepted(p)) =>
              IF ClaimedImage(p) = <<>>
              THEN /\ pc[p] = "exit" /\ exit_code[p] = {1}
                   /\ stages[p] = <<"Parse">>
                   /\ script_contents[p] = <<"unset">>
                   /\ write_outcome[p] = "none"
                   /\ child_status[p] = {}
              ELSE arguments[p] # NoArguments

\* two runs in one state: one fails fast with both sources empty, the other
\* has fallen back to DOCKERUSR_IMAGE and rendered its script
C2_Witness ==
    /\ \E p \in Procs :
          /\ OptionsAccepted(p) /\ ClaimedImage(p) = <<>>
          /\ pc[p] = "exit" /\ exit_code[p] = {1}
    /\ \E p \in Procs :
          /\ GivenImage(p) = <<>> /\ EnvImage(p) # <<>>
          /\ script_contents[p] # <<"unset">>
          /\ arguments[p].image = EnvImage(p)

\* C3: when the docker child exits with a non-zero status, the program does
\* not finish with exit status 0.
C3_ChildFailurePropagated ==
    \A p \in Procs :
        (child_status[p] # {} /\ 0 \notin child_status[p]) => exit_code[p] # {0}

\* C4: with dry_run no subprocess is ever spawned and the docker invocation
\* is printed exactly once; without dry_run it is executed exactly once and
\* never printed.
C4_DryRunPrintsElseExecutes ==
    \A p \in Procs :
        LET pastBranch == Did(p, "Build-Command") /\ pc[p] # "built"
        IN  IF Given(p, "-d", "--dryrun")
            THEN /\ Times(p, "Execute") = 0
                 /\ child_status[p] = {} /\ script_seen[p] = "none"
                 /\ pc[p] # "running"
                 /\ Cardinality(DockerLines(p)) <= 1
                 /\ pastBranch =>
                       /\ Cardinality(DockerLines(p)) = 1
                       /\ \A k \in DockerLines(p) : stdout[p][k] = docker_cmd[p]
            ELSE /\ DockerLines(p) = {}
                 /\ Times(p, "Execute") <= 1
                 /\ pastBranch => Times(p, "Execute") = 1
                 /\ pc[p] \in {"ran", "done"} => child_status[p] # {}

C4_Witness ==
    \E p \in Procs :
        /\ Given(p, "-d", "--dryrun") /\ pc[p] = "done"
        /\ Cardinality(DockerLines(p)) = 1 /\ child_status[p] = {}

\* the line that reports a kept script
KeepingLine(p) == <<"keeping", " ">> \o full_script_path[p]

\* C5: for a single invocation that runs to completion, the script file
\* exists at its path afterwards iff keep_script was given; when it was, the
\* path is printed.
C5_ScriptKeptIffKeepScript ==
    \A p \in Procs :
        ((\A q \in Procs \ {p} : ~Invoked(q)) /\ pc[p] = "done") =>
            /\ Exists(full_script_path[p]) <=> Given(p, "-s", "--keepscript")
            /\ Given(p, "-s", "--keepscript") =>
                  /\ stdout[p] # <<>>
                  /\ stdout[p][Len(stdout[p])] = KeepingLine(p)
                  /\ \E f \in fs : f = File(full_script_path[p], script_contents[p])
            /\ ~Given(p, "-s", "--keepscript") =>
                  \A k \in 1..Len(stdout[p]) : stdout[p][k] # KeepingLine(p)

\* a completed run without keep_script whose child failed
C5_Witness ==
    \E p \in Procs :
        /\ \A q \in Procs \ {p} : ~Invoked(q)
        /\ pc[p] = "done" /\ ~Given(p, "-s", "--keepscript")
        /\ child_status[p] = {1}
        /\ ~Exists(full_script_path[p])

\* C6: a failing removal of the script file is not fatal: the run does not
\* end aborted by it.
C6_DeleteFailureNotFatal ==
    \A p \in Procs : ~(pc[p] = "aborted" /\ LastStage(p) = "Delete")

\* C7: when writing the script file fails the run ends in a fatal error,
\* the write is not tried again, and the docker invocation is neither built,
\* executed nor printed.
C7_WriteFailureIsFatal ==
    \A p \in Procs :
        write_outcome[p] \in {"open_failed", "write_failed"} =>
            /\ pc[p] = "aborted" /\ exit_code[p] = {1}
            /\ LastStage(p) = "Write" /\ Times(p, "Write") = 1
            /\ docker_cmd[p] = <<"unset">>
            /\ child_status[p] = {} /\ script_seen[p] = "none"
            /\ DockerLines(p) = {}

C7_Witness ==
    \E p \in Procs :
        /\ write_outcome[p] = "write_failed" /\ pc[p] = "aborted"
        /\ Exists(full_script_path[p])

\* the home directory of the invoking user
HomeDir(p) == os_user[p].home_dir

\* C8: without use_home the useradd line of the script holds the clause
\* "-m -d <home_dir>" and the docker invocation mounts no home volume; with
\* use_home the useradd line holds no "-m -d" clause and the invocation
\* holds "-v <home_dir>:<home_dir>".  Either way the last command line of
\* the script runs sudo with HOME set to the invoking user's home_dir.
C8_HomeHandlingConsistent ==
    \A p \in Procs :
        LET useHome == Given(p, "-u", "--usehome")
            clause == <<"-m", " ", "-d", " ">> \o HomeDir(p)
            mount == <<"-v", " ">> \o HomeDir(p) \o <<":">> \o HomeDir(p)
            script == script_contents[p]
        IN  /\ script # <<"unset">> =>
                  /\ Infix(clause, LineOf(script, "useradd")) <=> ~useHome
                  /\ useHome => ~Infix(<<"-m", " ", "-d">>, LineOf(script, "useradd"))
                  /\ Infix(<<"sudo", " ", "-u", " ">> \o os_user[p].user_name
                           \o <<" ", "HOME=">> \o HomeDir(p) \o <<" ">>,
                           LastCommandLine(script))
            /\ docker_cmd[p] # <<"unset">> =>
                  /\ Infix(mount, docker_cmd[p]) <=> useHome
                  /\ Infix(clause, LineOf(script, "useradd")) <=> ~Infix(mount, docker_cmd[p])

\* use_home is given, the working directory is the home directory and the
\* command itself holds a home-creation clause
C8_Witness ==
    \E p \in Procs :
        /\ Given(p, "-u", "--usehome")
        /\ docker_cmd[p] # <<"unset">>
        /\ os_cwd[p] = HomeDir(p)
        /\ Infix(<<"-m", " ", "-d", " ">> \o HomeDir(p), script_contents[p])

\* the stages of a run, in order; the sixth is one of two, the seventh too
StageOrder ==
    << {"Parse"}, {"Resolve"}, {"Render"}, {"Write"}, {"Build-Command"},
       {"Execute", "Print"}, {"Delete", "Keep"} >>

Linear ==
    \A p \in Procs :
        /\ Len(stages[p]) <= Len(StageOrder)
        /\ \A k \in 1..Len(stages[p]) : stages[p][k] \in StageOrder[k]
        /\ Did(p, "Execute") => write_outcome[p] = "ok"
        /\ pc[p] = "done" => Len(stages[p]) = Len(StageOrder)

\* a step of a run performs at most one stage and never undoes one
Forward ==
    \A p \in Procs :
        \/ stages'[p] = stages[p]
        \/ \E st \in UNION {StageOrder[k] : k \in 1..Len(StageOrder)} :
              stages'[p] = Append(stages[p], st)

AllEnded == \A p \in Procs : pc[p] \in {"exit", "aborted", "done", "not_invoked"}

\* C9: every run goes Parse, Resolve, Render, Write, Build-Command, then one
\* of Execute or Print, then one of Delete or Keep: each stage at most once,
\* none after a later one, nothing retried, the script written before the
\* container is executed; and every run eventually ends.
C9_LinearAndTerminates == []Linear /\ [][Forward]_vars /\ <>[]AllEnded

C9_Witness ==
    \E p \in Procs :
        /\ pc[p] = "done" /\ Did(p, "Execute") /\ Did(p, "Delete")
        /\ Len(stages[p]) = 7

\* the invocations that have computed their script path
Named(p) == full_script_path[p] # <<"unset">>

\* q has removed the file at the path p uses
RemovedBy(p, q) ==
    /\ q # p /\ Named(q) /\ full_script_path[q] = full_script_path[p]
    /\ Did(q, "Delete")

\* C10: two invocations use the same script path exactly when their user
\* name and script content are the same; a run whose container finds the
\* script missing, or whose own removal fails, lost the file to a
\* concurrent run with the same path that removed it.
C10_PathSharedIffSameUserAndContent ==
    /\ \A p, q \in Procs :
          (Named(p) /\ Named(q)) =>
              ((user_info[p].user_name = user_info[q].user_name
                /\ script_contents[p] = script_contents[q])
               <=> full_script_path[p] = full_script_path[q])
    /\ \A p \in Procs :
          /\ script_seen[p] = "missing" => \E q \in Procs : RemovedBy(p, q)
          /\ (pc[p] = "aborted" /\ LastStage(p) = "Delete") =>
                \E q \in Procs : RemovedBy(p, q)

\* one run removed the file after the other had written it: the other's
\* container found no script, and its own removal then failed
C10_Witness ==
    \E p, q \in Procs :
        /\ p # q
        /\ user_info[p].user_name = user_info[q].user_name
        /\ script_contents[p] = script_contents[q]
        /\ write_outcome[p] = "ok" /\ write_outcome[q] = "ok"
        /\ pc[q] = "done" /\ Did(q, "Delete")
        /\ script_seen[p] = "missing"
        /\ pc[p] = "aborted" /\ LastStage(p) = "Delete"

====
